---- MODULE Spec2Model ----
(***************************************************************************)
(* A model of the request lifecycle orchestration of iib/web/api_v1.py:    *)
(* the state reports of patch_request, the creation and dispatch of the    *)
(* single and batch build endpoints, the construction and redaction of the *)
(* task argument lists, the queue routing, and get_build_logs.             *)
(*                                                                         *)
(* Eight specifications share the module:                                  *)
(*   Spec       - concurrent patch_request calls on one existing request;  *)
(*   SpecFields - one patch_request call over all the keys of the payload; *)
(*   SpecAuth   - one patch_request call by any user;                      *)
(*   SpecLogs   - one get_build_logs call;                                 *)
(*   SpecBatch  - one call of a create endpoint, from payload to response; *)
(*   SpecArgs   - the argument lists built for one add / rm submission;    *)
(*   SpecRoute  - _get_user_queue over its inputs;                         *)
(*   SpecCalls  - the calls of one logged-in user on the create endpoints, *)
(*                each task routed by _get_user_queue, with the report of  *)
(*                a worker between them.                                   *)
(***************************************************************************)
EXTENDS Integers, Sequences, FiniteSets, TLC

\* ------------------------------------------------------------------ bounds

\* Concurrent patch_request calls in flight.
NumWorkers == 2
\* patch_request calls started in one behaviour.
MaxPatches == 2

\* Members of payload["build_requests"] in one batch.
MaxBatch == 5

\* Calls of _get_user_queue in one behaviour of SpecRoute; build requests of
\* a batch in SpecCalls.
MaxRouted == 2

\* The latest instant of the clock and of logs_expiration.
MaxTime == 2

\* ------------------------------------------------------------------- state

\* patch_request calls on one existing request.
VARIABLES
    history,        \* the stored state history of the request, oldest first
    fields,         \* the stored image, architectures and bundle mapping
    pc,             \* pc[w]: where call w of patch_request stands
    payload,        \* payload[w]: the JSON payload of call w
    caller,         \* caller[w]: the user that makes call w
    seen,           \* seen[w]: request.state as call w loaded it
    pre,            \* pre[w]: the length of the history when call w loaded it
    state_updated,  \* state_updated[w]: the local flag of call w
    appended,       \* appended[w]: call w added an entry to the history
    notified,       \* notified[w]: call w sent a state-change message
    outcome,        \* outcome[w]: the response or the exception of call w
    calls           \* patch_request calls started so far

patchVars == <<history, fields, pc, payload, caller, seen, pre, state_updated, appended, notified,
               outcome, calls>>

\* One call of an endpoint that creates requests.
VARIABLES
    endpoint,               \* the endpoint called, "none" before the call
    build_requests,         \* the build requests of the payload, in order
    request_types,          \* the classes of the requests built from them
    bpc,                    \* where the call stands
    db_requests,            \* the ids of the committed request rows
    db_batches,             \* the number of committed batch rows
    session_left,           \* objects added to the session and never committed
    states,                 \* states[id]: the state history of request id
    idx,                    \* the one-based position the dispatch loop is at
    processed_request_ids,  \* the local list of the batch endpoints
    request_jsons,          \* the ids of the requests in the response body
    attempts,               \* the apply_async calls: <<id, accepted>>
    new_msgs,               \* the new-request messages sent: lists of ids
    response                \* the HTTP status, or the exception raised

batchVars == <<endpoint, build_requests, request_types, bpc, db_requests, db_batches, session_left,
               states, idx, processed_request_ids, request_jsons, attempts,
               new_msgs, response>>

\* One submission of an add or rm task.
VARIABLES
    task,           \* the endpoint that submits, "none" before the call
    task_payload,   \* the build request the arguments are taken from
    args,           \* the argument list given to apply_async
    safe_args,      \* the list whose repr is given as argsrepr
    current_user,   \* the user that calls the endpoint
    app_config,     \* the configuration values the endpoint reads
    celery_queue,   \* the queue _get_user_queue chose for the task
    queue_serial    \* the value given to _get_user_queue as `serial`

argsVars == <<task, task_payload, args, safe_args, current_user, app_config,
              celery_queue,
              queue_serial>>

\* The queue routing, over the calls of the handlers.
VARIABLES
    user_to_queue,  \* the configuration value IIB_USER_TO_QUEUE
    routed          \* the calls of _get_user_queue: user, serial, result, and
                    \* the number of tasks submitted and the length of the
                    \* state history of the patched request at the call

routeVars == <<user_to_queue, routed>>

\* One call of get_build_logs.
VARIABLES
    log_query,      \* what the call finds: configuration, request, file, clock
    log_response    \* the response, or the exception raised

logVars == <<log_query, log_response>>

\* ----------------------------------------------------------- Python values

\* A Python value with its type: str, int, bool, list or NoneType.
PyStr(s) == [t |-> "str", v |-> s]
PyInt(n) == [t |-> "int", v |-> n]
PyBool(b) == [t |-> "bool", v |-> b]
PyList(name) == [t |-> "list", v |-> name]
PyDict(name) == [t |-> "dict", v |-> name]
PyNone == [t |-> "none", v |-> 0]

PyNumber(a) == IF a.t = "bool" THEN (IF a.v THEN 1 ELSE 0) ELSE a.v

\* Python's == on the values above: a bool and an int are compared as numbers,
\* other values of different types are unequal (a str never equals an int, a
\* list or None).
PyEq(a, b) ==
    IF a.t \in {"int", "bool"} /\ b.t \in {"int", "bool"}
      THEN PyNumber(a) = PyNumber(b)
      ELSE a.t = b.t /\ a.v = b.v

\* The truth value of a Python value, as `if value:` takes it.
PyTruthy(a) ==
    CASE a.t = "none" -> FALSE
      [] a.t = "bool" -> a.v
      [] a.t = "int" -> a.v # 0
      [] a.t = "str" -> a.v # ""
      [] a.t = "list" -> TRUE

\* list.index(x) on a list of Python values: the one-based position of the
\* first element equal to x.
PyIndex(list, x) ==
    CHOOSE i \in 1..Len(list) :
        PyEq(list[i], x) /\ \A j \in 1..(i - 1) : ~PyEq(list[j], x)

\* A key that the JSON payload does not hold.
NoKey == "<absent>"

\* What stands for the value of such a key, where the values are Python values.
Missing == [t |-> "missing", v |-> 0]

\* -------------------------------------------------- the request state machine

\* RequestStateMapping: the names of the states ...
StateNames == {"in_progress", "complete", "failed"}

\* ... and RequestStateMapping.__members__[name].value, the integer stored in
\* the RequestState.state column.
StateValue(name) ==
    CASE name = "in_progress" -> 1
      [] name = "failed" -> 2
      [] name = "complete" -> 3

\* RequestState.state_name: the name of a stored integer.
StateName(value) == CHOOSE name \in StateNames : StateValue(name) = value

\* RequestStateMapping.get_final_states()
FinalStates == {"complete", "failed"}

\* RequestStateMapping.validate_state(state)
ValidState(state) == state \in StateNames

\* The history entry a request is created with.
InitialEntry == [state |-> StateValue("in_progress"), state_reason |-> "The request was initiated"]

Last(seq) == seq[Len(seq)]

\* Request.add_state(state, state_reason) on the stored history `hist`:
\* a report identical to the current entry is a no-op, a report that would
\* leave a final state is refused, anything else is appended.
AddState(hist, state, state_reason) ==
    LET cur == Last(hist)
        entry == [state |-> StateValue(state), state_reason |-> state_reason]
    IN  IF cur = entry
          THEN [states |-> hist, result |-> "NoOp"]
        ELSE IF StateName(cur.state) \in FinalStates /\ cur.state # entry.state
          THEN [states |-> hist, result |-> "IllegalTransitionError"]
        ELSE [states |-> Append(hist, entry), result |-> "Transitioned"]

\* --------------------------------------------------------------- patch_request

Workers == 1..NumWorkers

\* The values a patch payload gives the keys "state" and "state_reason".
PatchStates == {NoKey, "", "in_progress", "complete", "failed", "paused"}
PatchReasons == {NoKey, "", "done", "retry"}

\* The values a patch payload gives the keys "index_image", "arches" and
\* "bundle_mapping", and "user", a key that is not a mutable key.
PatchImages == {Missing, PyStr(""), PyInt(7), PyStr("quay.io/ns/index:1")}
PatchArches == {Missing, PyStr("amd64"), PyList("amd64")}
PatchMappings == {Missing, PyList("operator"), PyDict("operator")}
PatchOthers == {Missing, PyStr("bob")}

\* The payloads of the state reports of the workers: state and state_reason.
PatchPayloads ==
    [state : PatchStates, state_reason : PatchReasons,
     index_image : {Missing}, arches : {Missing}, bundle_mapping : {Missing},
     user : {Missing}]

\* The payloads over all the keys.
FullPayloads ==
    [state : PatchStates, state_reason : PatchReasons,
     index_image : PatchImages, arches : PatchArches,
     bundle_mapping : PatchMappings, user : PatchOthers]

NoPayload ==
    [state |-> NoKey, state_reason |-> NoKey, index_image |-> Missing,
     arches |-> Missing, bundle_mapping |-> Missing, user |-> Missing]

\* The image, the architectures and the bundle mapping of a new request.
InitFields == [index_image |-> "", arches |-> {}, bundle_mapping |-> {}]

\* The users that call patch_request, and IIB_WORKER_USERNAMES.
PatchUsers == [authenticated : BOOLEAN, username : {"worker", "alice"}]
WorkerUsernames == {"worker"}

\* A worker.
WorkerUser == [authenticated |-> TRUE, username |-> "worker"]

\* Every user but an authenticated worker is refused.
ForbiddenUnlessWorker(user) ==
    ~(user.authenticated /\ user.username \in WorkerUsernames)

\* The user is authenticated and is not a worker.
Forbidden(user) ==
    user.authenticated /\ user.username \notin WorkerUsernames

InitPatch ==
    /\ history = <<InitialEntry>>
    /\ fields = InitFields
    /\ pc = [w \in Workers |-> "idle"]
    /\ payload = [w \in Workers |-> NoPayload]
    /\ caller = [w \in Workers |-> WorkerUser]
    /\ seen = [w \in Workers |-> InitialEntry]
    /\ pre = [w \in Workers |-> 0]
    /\ state_updated = [w \in Workers |-> FALSE]
    /\ appended = [w \in Workers |-> FALSE]
    /\ notified = [w \in Workers |-> FALSE]
    /\ outcome = [w \in Workers |-> "none"]
    /\ calls = 0

\* `if not payload`: the payload holds no key.
EmptyPayload(p) ==
    /\ p.state = NoKey /\ p.state_reason = NoKey
    /\ p.index_image = Missing /\ p.arches = Missing
    /\ p.bundle_mapping = Missing /\ p.user = Missing

\* payload.keys() - request.get_mutable_keys() is not empty.
InvalidKeys(p) == p.user # Missing

\* The loop over payload.items(): arches is a valid architecture list,
\* bundle_mapping a dict of lists of strings, any other value a non-empty
\* string.
ValuesOk(p) ==
    /\ p.arches # Missing => p.arches.t = "list"
    /\ p.bundle_mapping # Missing => p.bundle_mapping.t = "dict"
    /\ p.index_image # Missing =>
          (p.index_image.t = "str" /\ p.index_image.v # "")
    /\ p.user # Missing => (p.user.t = "str" /\ p.user.v # "")
    /\ p.state # ""
    /\ p.state_reason # ""

\* Only a state without its reason is refused.
PairErrorStateOnly(p) == p.state # NoKey /\ p.state_reason = NoKey

\* One of state and state_reason is in the payload without the other.
PairError(p) ==
    \/ p.state # NoKey /\ p.state_reason = NoKey
    \/ p.state_reason # NoKey /\ p.state = NoKey

\* The checks of patch_request that read only the payload, in their order:
\* an empty payload, a key that is not mutable, a wrong value, one of state
\* and state_reason without the other.
PayloadError(p) ==
    IF EmptyPayload(p) THEN "ValidationError"
    ELSE IF InvalidKeys(p) THEN "ValidationError"
    ELSE IF ~ValuesOk(p) THEN "ValidationError"
    ELSE IF PairError(p) THEN "ValidationError"
    ELSE "ok"

\* The image keys, the architectures and the bundle mapping of the payload
\* are stored on the request.
SetFields(f, p) ==
    [index_image |-> IF p.index_image # Missing THEN p.index_image.v
                     ELSE f.index_image,
     arches |-> IF p.arches # Missing THEN f.arches \cup {p.arches.v}
                ELSE f.arches,
     bundle_mapping |-> IF p.bundle_mapping # Missing
                          THEN f.bundle_mapping \cup {p.bundle_mapping.v}
                          ELSE f.bundle_mapping]

\* The comparison that guards add_state: request.state.state, the integer
\* column, against the state name of the payload, and the two reasons.
SameAsLast(cur, new_state, new_state_reason) ==
    /\ PyEq(PyInt(cur.state), PyStr(new_state))
    /\ PyEq(PyStr(cur.state_reason), PyStr(new_state_reason))

\* The state block with the entry appended directly, add_state and the
\* comparison before it left out.
ApplyStateUnguarded(hist, cur, new_state, new_state_reason) ==
    [states |-> Append(hist, [state |-> StateValue(new_state),
                              state_reason |-> new_state_reason]),
     result |-> "Transitioned", state_updated |-> TRUE]

\* The state block of patch_request on the stored history `hist`, for a call
\* that loaded `cur` as the request's state: add_state is called unless the
\* report equals `cur`, and state_updated is set unless add_state raised.
ApplyState(hist, cur, new_state, new_state_reason) ==
    IF SameAsLast(cur, new_state, new_state_reason)
      THEN [states |-> hist, result |-> "NoOp", state_updated |-> FALSE]
    ELSE LET r == AddState(hist, new_state, new_state_reason)
         IN  [states |-> r.states, result |-> r.result,
              state_updated |-> r.result # "IllegalTransitionError"]

\* Call w starts, made by `user` with payload p: the user is checked, then
\* that the payload is not empty; then the request is loaded and the keys
\* and the values of the payload are checked.
Load(w, p, user) ==
    /\ pc[w] = "idle"
    /\ payload' = [payload EXCEPT ![w] = p]
    /\ caller' = [caller EXCEPT ![w] = user]
    /\ IF Forbidden(user)
         THEN /\ pc' = [pc EXCEPT ![w] = "done"]
              /\ outcome' = [outcome EXCEPT ![w] = "Forbidden"]
              /\ UNCHANGED <<seen, pre>>
         ELSE IF EmptyPayload(p)
         THEN /\ pc' = [pc EXCEPT ![w] = "done"]
              /\ outcome' = [outcome EXCEPT ![w] = PayloadError(p)]
              /\ UNCHANGED <<seen, pre>>
         ELSE /\ IF PayloadError(p) = "ok"
                   THEN /\ pc' = [pc EXCEPT ![w] = "loaded"]
                        /\ outcome' = [outcome EXCEPT ![w] = "none"]
                   ELSE /\ pc' = [pc EXCEPT ![w] = "done"]
                        /\ outcome' = [outcome EXCEPT ![w] = PayloadError(p)]
              /\ seen' = [seen EXCEPT ![w] = Last(history)]
              /\ pre' = [pre EXCEPT ![w] = Len(history)]
    /\ calls' = calls + 1
    /\ UNCHANGED <<history, fields, state_updated, appended, notified>>
    /\ UNCHANGED <<batchVars, argsVars, routeVars, logVars>>

\* A worker reports a state.
PatchLoad(w) ==
    /\ calls < MaxPatches
    /\ \E p \in PatchPayloads : Load(w, p, WorkerUser)

\* The first call on the request, by a worker, with a payload over all the
\* keys.
PatchLoadFull ==
    /\ calls = 0
    /\ \E p \in FullPayloads : Load(1, p, WorkerUser)

\* The first call on the request, by any user, with a payload over all the
\* keys.
PatchLoadAs ==
    /\ calls = 0
    /\ \E p \in FullPayloads, user \in PatchUsers : Load(1, p, user)

\* The one report of a worker on the end of the request: complete or failed.
PatchLoadReport ==
    /\ calls = 0
    /\ \E p \in PatchPayloads :
        /\ p.state \in {"complete", "failed"}
        /\ p.state_reason = "done"
        /\ Load(1, p, WorkerUser)

\* The other keys stored and committed first, the state block after them.
PatchApplyStateLast(w) ==
    /\ pc[w] = "loaded"
    /\ LET p == payload[w]
       IN  /\ fields' = SetFields(fields, p)
           /\ IF p.state # NoKey /\ ~ValidState(p.state)
                THEN /\ pc' = [pc EXCEPT ![w] = "done"]
                     /\ outcome' = [outcome EXCEPT ![w] = "ValidationError"]
                     /\ UNCHANGED <<history, state_updated, appended>>
                ELSE LET r == IF p.state # NoKey
                                THEN ApplyState(history, seen[w], p.state,
                                                p.state_reason)
                                ELSE [states |-> history, result |-> "NoOp",
                                      state_updated |-> FALSE]
                     IN  /\ history' = r.states
                         /\ appended' = [appended EXCEPT ![w] = r.result = "Transitioned"]
                         /\ state_updated' = [state_updated EXCEPT ![w] = r.state_updated]
                         /\ IF r.result = "IllegalTransitionError"
                              THEN /\ pc' = [pc EXCEPT ![w] = "done"]
                                   /\ outcome' = [outcome EXCEPT ![w] = r.result]
                              ELSE /\ pc' = [pc EXCEPT ![w] = "committed"]
                                   /\ UNCHANGED outcome
    /\ UNCHANGED <<payload, caller, seen, pre, notified, calls>>
    /\ UNCHANGED <<batchVars, argsVars, routeVars, logVars>>

\* The state block, the other keys and the commit.
PatchApply(w) ==
    /\ pc[w] = "loaded"
    /\ LET p == payload[w]
       IN  IF p.state # NoKey /\ ~ValidState(p.state)
             THEN /\ pc' = [pc EXCEPT ![w] = "done"]
                  /\ outcome' = [outcome EXCEPT ![w] = "ValidationError"]
                  /\ UNCHANGED <<history, fields, state_updated, appended>>
             ELSE LET r == IF p.state # NoKey
                             THEN ApplyState(history, seen[w], p.state,
                                             p.state_reason)
                             ELSE [states |-> history, result |-> "NoOp",
                                   state_updated |-> FALSE]
                  IN  /\ history' = r.states
                      /\ appended' = [appended EXCEPT ![w] = r.result = "Transitioned"]
                      /\ state_updated' = [state_updated EXCEPT ![w] = r.state_updated]
                      /\ IF r.result = "IllegalTransitionError"
                           THEN /\ pc' = [pc EXCEPT ![w] = "done"]
                                /\ outcome' = [outcome EXCEPT ![w] = r.result]
                                /\ UNCHANGED fields
                           ELSE /\ pc' = [pc EXCEPT ![w] = "committed"]
                                /\ fields' = SetFields(fields, p)
                                /\ UNCHANGED outcome
    /\ UNCHANGED <<payload, caller, seen, pre, notified, calls>>
    /\ UNCHANGED <<batchVars, argsVars, routeVars, logVars>>

\* After the commit: the state-change message and the response.
PatchRespond(w) ==
    /\ pc[w] = "committed"
    /\ notified' = [notified EXCEPT ![w] = state_updated[w]]
    /\ outcome' = [outcome EXCEPT ![w] = "200"]
    /\ pc' = [pc EXCEPT ![w] = "done"]
    /\ UNCHANGED <<history, fields, payload, caller, seen, pre, state_updated, appended,
                   calls>>
    /\ UNCHANGED <<batchVars, argsVars, routeVars, logVars>>

\* The call is over; its locals are gone.
PatchReturn(w) ==
    /\ pc[w] = "done"
    /\ pc' = [pc EXCEPT ![w] = "idle"]
    /\ payload' = [payload EXCEPT ![w] = NoPayload]
    /\ caller' = [caller EXCEPT ![w] = WorkerUser]
    /\ seen' = [seen EXCEPT ![w] = InitialEntry]
    /\ pre' = [pre EXCEPT ![w] = 0]
    /\ state_updated' = [state_updated EXCEPT ![w] = FALSE]
    /\ appended' = [appended EXCEPT ![w] = FALSE]
    /\ notified' = [notified EXCEPT ![w] = FALSE]
    /\ outcome' = [outcome EXCEPT ![w] = "none"]
    /\ UNCHANGED <<history, fields, calls>>
    /\ UNCHANGED <<batchVars, argsVars, routeVars, logVars>>

NextPatch ==
    \E w \in Workers :
        \/ PatchLoad(w)
        \/ PatchApply(w)
        \/ PatchRespond(w)
        \/ PatchReturn(w)

\* One call by any user.
NextAuth ==
    \/ PatchLoadAs
    \/ PatchApply(1)
    \/ PatchRespond(1)
    \/ PatchReturn(1)

\* One call over all the keys of the payload.
NextFields ==
    \/ PatchLoadFull
    \/ PatchApply(1)
    \/ PatchRespond(1)
    \/ PatchReturn(1)

\* ---------------------------------------------------------- queue routing

\* The user of a call: flask_login's current_user. The username of a user
\* that is not authenticated is never read.
Users == [authenticated : BOOLEAN, username : {"alice"}]

\* The keys and the values IIB_USER_TO_QUEUE may hold for the user.
RouteKeys == {"SERIAL:alice", "PARALLEL:alice", "alice"}
QueueNames == {"", "q1", "q2"}

\* The values of IIB_USER_TO_QUEUE: a dict from some of the keys to names.
UserToQueues == UNION {[D -> QueueNames] : D \in SUBSET RouteKeys}

\* The values the handlers give as `serial`: overwrite_from_index, which is
\* a bool or None.
SerialValues == {PyBool(TRUE), PyBool(FALSE), PyNone}

\* The values of IIB_USER_TO_QUEUE for the calls of a logged-in user: the
\* two labelled keys on different queues, a labelled key with an empty name
\* beside the username, the username alone.
LoginUserToQueues ==
    {[key \in {"SERIAL:alice", "PARALLEL:alice"} |->
        IF key = "SERIAL:alice" THEN "q1" ELSE "q2"],
     [key \in {"SERIAL:alice", "PARALLEL:alice", "alice"} |->
        IF key = "SERIAL:alice" THEN "q1" ELSE IF key = "alice" THEN "q2" ELSE ""],
     [key \in {"alice"} |-> "q1"]}

\* dict.get(key): the value of the key, None for a key the dict lacks.
DictGet(dict, key) ==
    IF key \in DOMAIN dict THEN PyStr(dict[key]) ELSE PyNone

\* A routing that takes a serial of False as given: `if serial is not None`.
GetUserQueueIfGiven(user, serial, mapping) ==
    IF ~user.authenticated THEN PyNone
    ELSE LET labeled_username ==
                 (IF serial # PyNone THEN "SERIAL:" ELSE "PARALLEL:")
                     \o user.username
             queue == DictGet(mapping, labeled_username)
         IN  IF ~PyTruthy(queue)
               THEN DictGet(mapping, user.username)
               ELSE queue

\* A routing that falls back to the username only when the labelled key is
\* missing.
GetUserQueueIfMissing(user, serial, mapping) ==
    IF ~user.authenticated THEN PyNone
    ELSE LET labeled_username ==
                 (IF PyTruthy(serial) THEN "SERIAL:" ELSE "PARALLEL:")
                     \o user.username
         IN  IF labeled_username \in DOMAIN mapping
               THEN DictGet(mapping, labeled_username)
               ELSE DictGet(mapping, user.username)

\* _get_user_queue(serial): None for a user that is not authenticated, else
\* the queue of the labelled username, else (`if not queue`) the queue of
\* the username.
GetUserQueue(user, serial, mapping) ==
    IF ~user.authenticated THEN PyNone
    ELSE LET labeled_username ==
                 (IF PyTruthy(serial) THEN "SERIAL:" ELSE "PARALLEL:")
                     \o user.username
             queue == DictGet(mapping, labeled_username)
         IN  IF ~PyTruthy(queue)
               THEN DictGet(mapping, user.username)
               ELSE queue

\* The flag alone, whoever the user is.
ShouldForceOverwriteAnyUser(user, config) ==
    config.IIB_FORCE_OVERWRITE_FROM_INDEX

\* _should_force_overwrite(): False for a user that is not authenticated,
\* else `username in privileged_users and force_ovewrite`.
ShouldForceOverwrite(user, config) ==
    IF ~user.authenticated THEN FALSE
    ELSE IF user.username \in config.IIB_PRIVILEGED_USERNAMES
           THEN config.IIB_FORCE_OVERWRITE_FROM_INDEX
    ELSE FALSE

\* _should_force_overwrite() or payload.get('overwrite_from_index')
OverwriteFromIndex(force, p) ==
    IF force THEN PyBool(TRUE) ELSE p.overwrite_from_index

\* ------------------------------------------------- creation and dispatch

\* The endpoints that create requests.
SingleEndpoints == {"add_bundles", "rm_operators", "regenerate_bundle"}
BatchEndpoints == {"regenerate_bundle_batch", "add_rm_batch"}

\* The keys of a build request that the endpoints and from_json read.
BuildRequestKeys == {"operators", "bundles", "from_bundle_image", "overwrite_from_index"}

\* A build request of a payload, a JSON object: each key is absent (Missing)
\* or holds a value.
RmRequest ==
    [operators |-> PyList("operators"), bundles |-> Missing,
     from_bundle_image |-> Missing, overwrite_from_index |-> Missing]
AddRequest(overwrite_from_index) ==
    [operators |-> Missing, bundles |-> PyList("bundles"),
     from_bundle_image |-> Missing, overwrite_from_index |-> overwrite_from_index]
RegenerateRequest ==
    [operators |-> Missing, bundles |-> Missing,
     from_bundle_image |-> PyStr("quay.io/ns/bundle:1"), overwrite_from_index |-> Missing]
BothRequest ==
    [operators |-> PyList("operators"), bundles |-> PyList("bundles"),
     from_bundle_image |-> Missing, overwrite_from_index |-> Missing]
NeitherRequest ==
    [operators |-> Missing, bundles |-> Missing,
     from_bundle_image |-> Missing, overwrite_from_index |-> Missing]

\* The values JSON gives overwrite_from_index in an add request: false,
\* true, or the number 1, which Python's == takes as equal to true.
OverwriteValues == {PyBool(FALSE), PyBool(TRUE), PyInt(1)}

\* The build requests the payloads are made of.
BuildRequests ==
    {RmRequest, RegenerateRequest, BothRequest, NeitherRequest}
        \cup {AddRequest(v) : v \in OverwriteValues}

\* build_request.get(key): the value of the key, None for an absent key.
BrGet(member, key) == IF member[key] = Missing THEN PyNone ELSE member[key]

\* Python's == on two build requests (dicts): the same keys, with equal
\* values.
DictEq(a, b) ==
    \A key \in BuildRequestKeys :
        /\ (a[key] = Missing) <=> (b[key] = Missing)
        /\ a[key] # Missing => PyEq(a[key], b[key])

\* The reason handle_broker_error and handle_broker_batch_error record.
BrokerReason == "broker unavailable"

\* overwrite_from_index, where a variant takes it, is absent or a boolean.
OverwriteOk(member) ==
    member.overwrite_from_index = Missing \/ member.overwrite_from_index.t = "bool"

\* RequestAdd.from_json, RequestRm.from_json and
\* RequestRegenerateBundle.from_json accept a build request (TRUE) or raise
\* ValidationError (FALSE): each accepts the keys of its own variant only,
\* with values of the type of the key.
FromJsonOk(cls, member) ==
    CASE cls = "RequestAdd" ->
            /\ member.bundles # Missing
            /\ member.operators = Missing /\ member.from_bundle_image = Missing
            /\ OverwriteOk(member)
      [] cls = "RequestRm" ->
            /\ member.operators # Missing
            /\ member.bundles = Missing /\ member.from_bundle_image = Missing
            /\ OverwriteOk(member)
      [] cls = "RequestRegenerateBundle" ->
            /\ member.from_bundle_image # Missing
            /\ member.operators = Missing /\ member.bundles = Missing
            /\ member.overwrite_from_index = Missing

\* add_rm_batch with the two classes exchanged.
BuildClassExchanged(ep, member) ==
    CASE ep \in {"regenerate_bundle", "regenerate_bundle_batch"} -> "RequestRegenerateBundle"
      [] ep = "add_bundles" -> "RequestAdd"
      [] ep = "rm_operators" -> "RequestRm"
      [] ep = "add_rm_batch" ->
            IF PyTruthy(BrGet(member, "operators")) THEN "RequestAdd"
            ELSE IF PyTruthy(BrGet(member, "bundles")) THEN "RequestRm"
            ELSE "none"

\* Whether the endpoint builds a request from the member, and of which class:
\* the body of the try block of the validation loop.
BuildClass(ep, member) ==
    CASE ep \in {"regenerate_bundle", "regenerate_bundle_batch"} -> "RequestRegenerateBundle"
      [] ep = "add_bundles" -> "RequestAdd"
      [] ep = "rm_operators" -> "RequestRm"
      [] ep = "add_rm_batch" ->
            IF PyTruthy(BrGet(member, "operators")) THEN "RequestRm"
            ELSE IF PyTruthy(BrGet(member, "bundles")) THEN "RequestAdd"
            ELSE "none"

\* The try block of the validation loop ends without ValidationError.
MemberOk(ep, member) ==
    LET cls == BuildClass(ep, member)
    IN  cls # "none" /\ FromJsonOk(cls, member)

\* list.index(x) on payload["build_requests"]: the zero-based position of
\* the first build request that Python's == takes as equal to x.
ListIndex(list, x) ==
    (CHOOSE i \in 1..Len(list) :
        DictEq(list[i], x) /\ \A j \in 1..(i - 1) : ~DictEq(list[j], x)) - 1

\* The one-based position of the first member the validation loop rejects,
\* 0 when it accepts them all.
FirstInvalid(ep, brs) ==
    IF \A i \in 1..Len(brs) : MemberOk(ep, brs[i])
      THEN 0
      ELSE CHOOSE i \in 1..Len(brs) :
              ~MemberOk(ep, brs[i]) /\ \A j \in 1..(i - 1) : MemberOk(ep, brs[j])

\* The local list `requests` when the validation loop ends: the class of the
\* request built from each build request, up to the first one rejected.
RequestTypes(ep, brs) ==
    LET k == FirstInvalid(ep, brs)
        n == IF k = 0 THEN Len(brs) ELSE k - 1
    IN  [i \in 1..n |-> BuildClass(ep, brs[i])]

\* The rows committed if each request were committed as soon as it is built.
CommittedRowsEager(ep, brs) ==
    LET k == FirstInvalid(ep, brs)
    IN  IF k = 0 THEN [i \in 1..Len(brs) |-> i] ELSE [i \in 1..(k - 1) |-> i]

\* The request rows the creation part of an endpoint commits: the ids of the
\* requests, in payload order. The commit follows the validation loop, so a
\* rejected member leaves nothing committed.
CommittedRows(ep, brs) ==
    IF FirstInvalid(ep, brs) = 0 THEN [i \in 1..Len(brs) |-> i] ELSE <<>>

\* The objects left in the session, added and not committed, when the
\* validation loop raises at one-based position k: regenerate_bundle_batch
\* rolls back, add_rm_batch leaves the batch and the requests built so far,
\* the single endpoints have added nothing yet.
SessionLeft(ep, k) ==
    IF ep = "add_rm_batch" THEN k ELSE 0

\* The requests after the one whose submission raised: the current request
\* counted as processed before its submission.
UnprocessedLater(rows, processed) ==
    LET rest == SelectSeq(rows,
                    LAMBDA id : \A j \in 1..Len(processed) : processed[j] # id)
    IN  IF rest = <<>> THEN rest ELSE Tail(rest)

\* Only the request whose submission raised: the first one not processed.
UnprocessedFirst(rows, processed) ==
    LET rest == SelectSeq(rows,
                    LAMBDA id : \A j \in 1..Len(processed) : processed[j] # id)
    IN  IF rest = <<>> THEN rest ELSE <<Head(rest)>>

\* Every request of the batch, processed or not.
UnprocessedAll(rows, processed) == rows

\* unprocessed_requests: the requests whose id is not in processed_request_ids.
Unprocessed(rows, processed) ==
    SelectSeq(rows, LAMBDA id : \A j \in 1..Len(processed) : processed[j] # id)

\* handle_broker_error(request) and handle_broker_batch_error(requests):
\* each of the requests is moved to failed with the broker reason.
MarkFailed(st, ids) ==
    [id \in DOMAIN st |->
        IF \E j \in 1..Len(ids) : ids[j] = id
          THEN AddState(st[id], "failed", BrokerReason).states
          ELSE st[id]]

\* ---------------------------------------------------- the routing calls

InitRoute ==
    /\ user_to_queue = <<>>
    /\ routed = <<>>

\* The application is configured, before it serves a call.
LoadConfig ==
    /\ user_to_queue = <<>>
    /\ routed = <<>>
    /\ bpc = "idle"
    /\ \E mapping \in UserToQueues \ {<<>>} : user_to_queue' = mapping
    /\ UNCHANGED routed
    /\ UNCHANGED <<patchVars, batchVars, argsVars, logVars>>

\* One call of _get_user_queue, as the log of the routing calls records it.
RouteCall(user, serial) ==
    [user |-> user, serial |-> serial,
     dispatched |-> Len(attempts), patched |-> Len(history),
     queue |-> GetUserQueue(user, serial, user_to_queue)]

\* The value an endpoint gives as `serial` for a build request: the default
\* (False) in regenerate_bundle and regenerate_bundle_batch, which call
\* _get_user_queue(), overwrite_from_index in the others.
SerialOf(ep, member, user, config) ==
    IF ep \in {"regenerate_bundle", "regenerate_bundle_batch"}
      THEN PyBool(FALSE)
      ELSE OverwriteFromIndex(ShouldForceOverwrite(user, config),
                              [overwrite_from_index |->
                                  BrGet(member, "overwrite_from_index")])

\* _get_user_queue(serial) for any user and any value of serial.
GetQueue ==
    /\ Len(routed) < MaxRouted
    /\ \E user \in Users, serial \in SerialValues :
        routed' = Append(routed, RouteCall(user, serial))
    /\ UNCHANGED user_to_queue
    /\ UNCHANGED <<patchVars, batchVars, argsVars, logVars>>

\* The routing function over its inputs.
NextRoute ==
    \/ LoadConfig
    \/ GetQueue

\* --------------------------------------------- the create endpoints

InitBatch ==
    /\ endpoint = "none"
    /\ build_requests = <<>>
    /\ request_types = <<>>
    /\ bpc = "idle"
    /\ db_requests = <<>>
    /\ db_batches = 0
    /\ session_left = 0
    /\ states = <<>>
    /\ idx = 0
    /\ processed_request_ids = <<>>
    /\ request_jsons = <<>>
    /\ attempts = <<>>
    /\ new_msgs = <<>>
    /\ response = [code |-> "none", index |-> -1]

\* The payloads of 1..MaxBatch build requests given to a batch endpoint.
Payloads(ep) ==
    LET members == IF ep = "add_rm_batch" THEN BuildRequests \ {RegenerateRequest}
                   ELSE {RegenerateRequest, AddRequest(PyBool(FALSE)), NeitherRequest}
    IN  UNION {[1..n -> members] : n \in 1..MaxBatch}

\* The creation part with the commit of the batch endpoints left out: the
\* build requests are validated and the call goes on to the message and the
\* dispatch with no row committed.
CreateUncommitted(ep, brs) ==
    /\ bpc = "idle"
    /\ endpoint' = ep
    /\ build_requests' = brs
    /\ request_types' = RequestTypes(ep, brs)
    /\ LET k == FirstInvalid(ep, brs)
           rows == IF ep \in BatchEndpoints THEN <<>> ELSE CommittedRows(ep, brs)
       IN  /\ db_requests' = rows
           /\ states' = [id \in 1..Len(rows) |-> <<InitialEntry>>]
           /\ db_batches' = 0
           /\ IF k = 0
                THEN /\ session_left' = Len(brs) - Len(rows)
                     /\ bpc' = "committed"
                     /\ UNCHANGED response
                ELSE /\ session_left' = SessionLeft(ep, k)
                     /\ bpc' = "rejected"
                     /\ response' = [code |-> "ValidationError",
                                     index |-> IF ep \in BatchEndpoints
                                                 THEN ListIndex(brs, brs[k]) ELSE -1]
    /\ UNCHANGED <<idx, processed_request_ids, request_jsons, attempts, new_msgs>>
    /\ UNCHANGED <<patchVars, argsVars, routeVars, logVars>>

\* From the payload to the commit: every build request is validated and
\* built, then the batch and the requests are committed together; the first
\* invalid build request ends the call in ValidationError.
Create(ep, brs) ==
    /\ bpc = "idle"
    /\ endpoint' = ep
    /\ build_requests' = brs
    /\ request_types' = RequestTypes(ep, brs)
    /\ LET k == FirstInvalid(ep, brs)
           rows == CommittedRows(ep, brs)
       IN  /\ db_requests' = rows
           /\ states' = [id \in 1..Len(rows) |-> <<InitialEntry>>]
           /\ IF k = 0
                THEN /\ db_batches' = IF ep \in BatchEndpoints THEN 1 ELSE 0
                     /\ session_left' = 0
                     /\ bpc' = "committed"
                     /\ UNCHANGED response
                ELSE /\ db_batches' = 0
                     /\ session_left' = SessionLeft(ep, k)
                     /\ bpc' = "rejected"
                     /\ response' = [code |-> "ValidationError",
                                     index |-> IF ep \in BatchEndpoints
                                                 THEN ListIndex(brs, brs[k]) ELSE -1]
    /\ UNCHANGED <<idx, processed_request_ids, request_jsons, attempts, new_msgs>>
    /\ UNCHANGED <<patchVars, argsVars, routeVars, logVars>>

\* A call of add_bundles, rm_operators or regenerate_bundle: the payload is the
\* one build request.
CreateSingle ==
    /\ bpc = "idle"
    /\ \E ep \in SingleEndpoints, m \in BuildRequests : Create(ep, <<m>>)

\* A call of regenerate_bundle_batch or add_rm_batch.
CreateBatch ==
    /\ bpc = "idle"
    /\ \E ep \in BatchEndpoints : \E brs \in Payloads(ep) : Create(ep, brs)

\* After the commit: the message for the new request or the new batch.
NotifyNew ==
    /\ bpc = "committed"
    /\ new_msgs' = Append(new_msgs, db_requests)
    /\ idx' = 1
    /\ bpc' = "dispatch"
    /\ UNCHANGED <<endpoint, build_requests, request_types, db_requests, db_batches, session_left,
                   states, processed_request_ids, request_jsons, attempts, response>>
    /\ UNCHANGED <<patchVars, argsVars, routeVars, logVars>>

\* The queue of the task of the build request at one-based position i, as
\* the endpoint computes it for apply_async.
RouteTask(i) ==
    /\ routed' = Append(routed,
                    RouteCall(current_user,
                              SerialOf(endpoint, build_requests[i],
                                       current_user, app_config)))
    /\ UNCHANGED user_to_queue

\* add_bundles, rm_operators, regenerate_bundle: the one apply_async call,
\* on the queue of the user, accepted or refused by the broker.
SubmitSingle ==
    /\ bpc = "dispatch"
    /\ endpoint \in SingleEndpoints
    /\ RouteTask(1)
    /\ \E accepted \in BOOLEAN :
        /\ attempts' = Append(attempts, <<db_requests[1], accepted>>)
        /\ states' = IF accepted THEN states ELSE MarkFailed(states, db_requests)
    /\ request_jsons' = db_requests
    /\ bpc' = "submitted"
    /\ UNCHANGED <<endpoint, build_requests, request_types, db_requests, db_batches, session_left,
                   idx, processed_request_ids, new_msgs, response>>
    /\ UNCHANGED <<patchVars, argsVars, logVars>>

\* add_rm_batch: one iteration of the dispatch loop. The try block is inside
\* the loop: after a refused submission the loop goes on.
SubmitAddRm ==
    /\ bpc = "dispatch"
    /\ endpoint = "add_rm_batch"
    /\ idx <= Len(db_requests)
    /\ RouteTask(idx)
    /\ LET id == db_requests[idx]
       IN  /\ request_jsons' = Append(request_jsons, id)
           /\ \E accepted \in BOOLEAN :
                /\ attempts' = Append(attempts, <<id, accepted>>)
                /\ states' = IF accepted THEN states
                             ELSE MarkFailed(states,
                                    Unprocessed(db_requests, processed_request_ids))
           /\ processed_request_ids' = Append(processed_request_ids, id)
    /\ idx' = idx + 1
    /\ bpc' = IF idx = Len(db_requests) THEN "submitted" ELSE "dispatch"
    /\ UNCHANGED <<endpoint, build_requests, request_types, db_requests, db_batches, session_left,
                   new_msgs, response>>
    /\ UNCHANGED <<patchVars, argsVars, logVars>>

\* regenerate_bundle_batch: one iteration of the dispatch loop. The try block
\* is around the loop: a refused submission ends it.
SubmitRegenerate ==
    /\ bpc = "dispatch"
    /\ endpoint = "regenerate_bundle_batch"
    /\ idx <= Len(db_requests)
    /\ RouteTask(idx)
    /\ LET id == db_requests[idx]
       IN  \E accepted \in BOOLEAN :
            /\ attempts' = Append(attempts, <<id, accepted>>)
            /\ IF accepted
                 THEN /\ request_jsons' = Append(request_jsons, id)
                      /\ processed_request_ids' = Append(processed_request_ids, id)
                      /\ idx' = idx + 1
                      /\ bpc' = IF idx = Len(db_requests) THEN "submitted" ELSE "dispatch"
                      /\ UNCHANGED states
                 ELSE /\ states' = MarkFailed(states,
                                     Unprocessed(db_requests, processed_request_ids))
                      /\ bpc' = "submitted"
                      /\ UNCHANGED <<request_jsons, processed_request_ids, idx>>
    /\ UNCHANGED <<endpoint, build_requests, request_types, db_requests, db_batches, session_left,
                   new_msgs, response>>
    /\ UNCHANGED <<patchVars, argsVars, logVars>>

\* The response: 201 and the JSON of the requests.
Return ==
    /\ bpc = "submitted"
    /\ response' = [code |-> "201", index |-> -1]
    /\ bpc' = "returned"
    /\ UNCHANGED <<endpoint, build_requests, request_types, db_requests, db_batches, session_left,
                   states, idx, processed_request_ids, request_jsons, attempts,
                   new_msgs>>
    /\ UNCHANGED <<patchVars, argsVars, routeVars, logVars>>

NextBatch ==
    \/ CreateSingle
    \/ CreateBatch
    \/ NotifyNew
    \/ SubmitSingle
    \/ SubmitAddRm
    \/ SubmitRegenerate
    \/ Return

\* A user logs in to an application whose IIB_USER_TO_QUEUE is configured.
Login ==
    /\ bpc = "idle"
    /\ user_to_queue = <<>>
    /\ \E user \in Users, mapping \in LoginUserToQueues :
        /\ current_user' = user
        /\ user_to_queue' = mapping
    /\ UNCHANGED <<routed, task, task_payload, args, safe_args, app_config, celery_queue,
                   queue_serial>>
    /\ UNCHANGED <<patchVars, batchVars, logVars>>

\* A call of regenerate_bundle_batch or add_rm_batch with at most MaxRouted
\* build requests.
CreateShortBatch ==
    /\ bpc = "idle"
    /\ \E ep \in BatchEndpoints : \E brs \in Payloads(ep) :
        Len(brs) <= MaxRouted /\ Create(ep, brs)

\* The calls of one user on the create endpoints, each task routed to the
\* queue of the user, and between them the reports of a worker on a request.
NextCalls ==
    \/ Login
    \/ CreateSingle
    \/ CreateShortBatch
    \/ NotifyNew
    \/ SubmitSingle
    \/ SubmitAddRm
    \/ SubmitRegenerate
    \/ Return
    \/ PatchLoadReport
    \/ PatchApply(1)
    \/ PatchRespond(1)
    \/ PatchReturn(1)

\* ------------------------------------------------------ task argument lists

\* The strings a payload may give a string key.
Strings == {"abc123", "quay.io/ns/image:1"}

OptStrings == {PyNone} \cup {PyStr(x) : x \in Strings}
Tokens == {PyNone, PyStr("")} \cup {PyStr(x) : x \in Strings}

\* The build requests of an add submission: payload.get(key) for each key the
\* argument list reads, None for a key the payload does not hold.
AddPayloads ==
    [bundles : {PyList("bundles")},
     binary_image : {PyStr(x) : x \in Strings},
     from_index : OptStrings,
     add_arches : {PyNone},
     cnr_token : Tokens,
     organization : OptStrings,
     force_backport : {PyNone},
     overwrite_from_index : {PyNone, PyBool(FALSE), PyBool(TRUE)},
     overwrite_from_index_token : Tokens]

\* The build requests of an rm submission. An rm request holds no cnr_token.
RmPayloads ==
    [operators : {PyList("operators")},
     binary_image : {PyStr(x) : x \in Strings},
     from_index : {PyStr(x) : x \in Strings},
     add_arches : {PyNone},
     cnr_token : {PyNone},
     overwrite_from_index : {PyNone, PyBool(FALSE), PyBool(TRUE)},
     overwrite_from_index_token : Tokens]

\* The configuration values _should_force_overwrite reads.
\* The values of IIB_USER_TO_QUEUE of an argument list: no queue, or one
\* queue for the serial and one for the parallel tasks of the user.
ArgUserToQueues ==
    {<<>>,
     [k \in {"SERIAL:alice", "PARALLEL:alice"} |->
        IF k = "SERIAL:alice" THEN "q1" ELSE "q2"]}

\* The values of IIB_GREENWAVE_CONFIG: a dict from some of the queues to the
\* greenwave configuration of the queue.
GreenwaveConfigs == UNION {[D -> {"greenwave"}] : D \in SUBSET {"q1", "q2"}}

\* The configuration values the endpoints read.
AppConfigs ==
    [IIB_PRIVILEGED_USERNAMES : {{}, {"alice"}},
     IIB_FORCE_OVERWRITE_FROM_INDEX : BOOLEAN,
     IIB_USER_TO_QUEUE : ArgUserToQueues,
     IIB_GREENWAVE_CONFIG : GreenwaveConfigs]

\* IIB_GREENWAVE_CONFIG.get(celery_queue): the configuration of the queue, a
\* dict, None for a queue without one and for the default queue (None).
GreenwaveGet(greenwave, queue) ==
    IF queue.t = "str" /\ queue.v \in DOMAIN greenwave
      THEN PyDict(greenwave[queue.v])
      ELSE PyNone

\* The args list of handle_add_request for the request `id`.
AddArgs(p, id, force, queue, config) ==
    << p.bundles,
       p.binary_image,
       PyInt(id),
       p.from_index,
       p.add_arches,
       p.cnr_token,
       p.organization,
       p.force_backport,
       OverwriteFromIndex(force, p),
       p.overwrite_from_index_token,
       GreenwaveGet(config.IIB_GREENWAVE_CONFIG, queue) >>

\* The args list of handle_rm_request for the request `id`.
RmArgs(p, id, force) ==
    << p.operators,
       p.binary_image,
       PyInt(id),
       p.from_index,
       p.add_arches,
       OverwriteFromIndex(force, p),
       p.overwrite_from_index_token >>

\* if token: safe_args[safe_args.index(token)] = '*****'
Redact(list, token) ==
    IF PyTruthy(token)
      THEN [list EXCEPT ![PyIndex(list, token)] = PyStr("*****")]
      ELSE list

\* safe_args of add_bundles and of add_rm_batch: a copy of args with the
\* cnr_token, then the overwrite_from_index_token, replaced.
SafeArgs(list, p) ==
    Redact(Redact(list, p.cnr_token), p.overwrite_from_index_token)

\* safe_args of rm_operators: only the overwrite_from_index_token is replaced.
SafeArgsRm(list, p) ==
    Redact(list, p.overwrite_from_index_token)

InitArgs ==
    /\ task = "none"
    /\ task_payload = <<>>
    /\ args = <<>>
    /\ safe_args = <<>>
    /\ current_user = [authenticated |-> FALSE, username |-> "alice"]
    /\ app_config = [IIB_PRIVILEGED_USERNAMES |-> {},
                     IIB_FORCE_OVERWRITE_FROM_INDEX |-> FALSE,
                     IIB_USER_TO_QUEUE |-> <<>>,
                     IIB_GREENWAVE_CONFIG |-> <<>>]
    /\ celery_queue = PyNone
    /\ queue_serial = PyNone

\* add_bundles builds the arguments of its task.
SubmitAdd ==
    /\ task = "none"
    /\ \E p \in AddPayloads, user \in Users, config \in AppConfigs :
        LET force == ShouldForceOverwrite(user, config)
            queue == GetUserQueue(user, OverwriteFromIndex(force, p),
                                  config.IIB_USER_TO_QUEUE)
        IN  /\ task_payload' = p
            /\ current_user' = user
            /\ app_config' = config
            /\ queue_serial' = OverwriteFromIndex(force, p)
            /\ celery_queue' = queue
            /\ args' = AddArgs(p, 1, force, queue, config)
            /\ safe_args' = SafeArgs(AddArgs(p, 1, force, queue, config), p)
    /\ task' = "add_bundles"
    /\ UNCHANGED <<patchVars, batchVars, routeVars, logVars>>

\* rm_operators builds the arguments of its task.
SubmitRm ==
    /\ task = "none"
    /\ \E p \in RmPayloads, user \in Users, config \in AppConfigs :
        LET force == ShouldForceOverwrite(user, config)
        IN  /\ task_payload' = p
            /\ current_user' = user
            /\ app_config' = config
            /\ queue_serial' = OverwriteFromIndex(force, p)
            /\ celery_queue' = GetUserQueue(user, OverwriteFromIndex(force, p),
                                            config.IIB_USER_TO_QUEUE)
            /\ args' = RmArgs(p, 1, force)
            /\ safe_args' = SafeArgsRm(RmArgs(p, 1, force), p)
    /\ task' = "rm_operators"
    /\ UNCHANGED <<patchVars, batchVars, routeVars, logVars>>

\* add_rm_batch builds the arguments of the task of one member, an add or an
\* rm request.
SubmitMember ==
    /\ task = "none"
    /\ \E user \in Users, config \in AppConfigs :
        LET force == ShouldForceOverwrite(user, config)
        IN  /\ current_user' = user
            /\ app_config' = config
            /\ \/ \E p \in AddPayloads :
                    /\ task_payload' = p
                    /\ queue_serial' = OverwriteFromIndex(force, p)
                    /\ celery_queue' =
                          GetUserQueue(user, OverwriteFromIndex(force, p),
                                       config.IIB_USER_TO_QUEUE)
                    /\ args' = AddArgs(p, 1, force, celery_queue', config)
                    /\ safe_args' =
                          SafeArgs(AddArgs(p, 1, force, celery_queue', config), p)
                    /\ task' = "add_rm_batch:add"
               \/ \E p \in RmPayloads :
                    /\ task_payload' = p
                    /\ queue_serial' = OverwriteFromIndex(force, p)
                    /\ celery_queue' =
                          GetUserQueue(user, OverwriteFromIndex(force, p),
                                       config.IIB_USER_TO_QUEUE)
                    /\ args' = RmArgs(p, 1, force)
                    /\ safe_args' = SafeArgs(RmArgs(p, 1, force), p)
                    /\ task' = "add_rm_batch:rm"
    /\ UNCHANGED <<patchVars, batchVars, routeVars, logVars>>

NextArgs ==
    \/ SubmitAdd
    \/ SubmitRm
    \/ SubmitMember

\* ----------------------------------------------------------- get_build_logs

\* The values of IIB_REQUEST_LOGS_DIR.
LogDirs == {PyNone, PyStr(""), PyStr("/var/log/iib")}

\* No file at log_file_path.
NoFile == "<no file>"

\* What is at log_file_path: no file, or the text of the file.
LogFiles == {NoFile, "", "build log"}

\* What a call of get_build_logs finds: the configured directory, whether
\* the request exists, the file, logs_expiration and the clock, and the name
\* of the state of the request.
LogQueries ==
    [dir : LogDirs, found : BOOLEAN, file : LogFiles,
     logs_expiration : 0..MaxTime, utcnow : 0..MaxTime, state_name : StateNames]

Answer(code, body) == [code |-> code, body |-> body]

\* The final state looked at before the expiration.
LogsResponseFinalFirst(q) ==
    IF ~PyTruthy(q.dir) THEN Answer("NotFound", "")
    ELSE IF ~q.found THEN Answer("NotFound", "")
    ELSE IF q.file = NoFile
      THEN IF q.state_name \in FinalStates THEN Answer("NotFound", "")
           ELSE IF q.logs_expiration < q.utcnow THEN Answer("Gone", "")
           ELSE Answer("200", "")
    ELSE Answer("200", q.file)

\* get_build_logs: NotFound without a log directory or without the request;
\* without the file Gone once logs_expiration is before the clock, else
\* NotFound for a request in a final state, else an empty text; with the
\* file, its text.
LogsResponse(q) ==
    IF ~PyTruthy(q.dir) THEN Answer("NotFound", "")
    ELSE IF ~q.found THEN Answer("NotFound", "")
    ELSE IF q.file = NoFile
      THEN IF q.logs_expiration < q.utcnow THEN Answer("Gone", "")
           ELSE IF q.state_name \in FinalStates THEN Answer("NotFound", "")
           ELSE Answer("200", "")
    ELSE Answer("200", q.file)

InitLogs ==
    /\ log_query = <<>>
    /\ log_response = Answer("none", "")

\* A call of get_build_logs.
GetBuildLogs ==
    /\ log_response.code = "none"
    /\ \E q \in LogQueries :
        /\ log_query' = q
        /\ log_response' = LogsResponse(q)
    /\ UNCHANGED <<patchVars, batchVars, argsVars, routeVars>>

NextLogs == GetBuildLogs

\* --------------------------------------------------- properties of patch_request

\* The entry a payload reports, as add_state would store it.
Reported(p) == [state |-> StateValue(p.state), state_reason |-> p.state_reason]

\* Call w is past its state block with a well-formed report of a known state.
Reports(w) ==
    /\ pc[w] \in {"committed", "done"}
    /\ PayloadError(payload[w]) = "ok"
    /\ ValidState(payload[w].state)

\* C1 (as stated): a patch_request call that reports the (state, reason) the
\* request already has as its current entry appends nothing to the history
\* and sends no state-change message.
C1_RepeatedReportIsNoOp ==
    \A w \in Workers :
        (Reports(w) /\ pc[w] = "done" /\ seen[w] = Reported(payload[w]))
            => (~appended[w] /\ ~notified[w])

\* C2: no entry of the history follows a complete or failed entry with another
\* state, and a call that reports another state for a request it loaded as
\* complete or failed ends in IllegalTransitionError without appending.
C2_NoResurrection ==
    /\ \A i \in 1..(Len(history) - 1) :
          StateName(history[i].state) \in FinalStates
              => history[i + 1].state = history[i].state
    /\ \A w \in Workers :
          (/\ Reports(w)
           /\ StateName(seen[w].state) \in FinalStates
           /\ StateValue(payload[w].state) # seen[w].state)
              => (outcome[w] = "IllegalTransitionError" /\ ~appended[w])

\* C2 witness: a call reported in_progress or the other final state for a
\* request that was complete or failed, and was refused.
C2_Witness ==
    \E w \in Workers :
        /\ Reports(w)
        /\ StateName(seen[w].state) \in FinalStates
        /\ StateValue(payload[w].state) # seen[w].state
        /\ outcome[w] = "IllegalTransitionError"
        /\ Len(history) > 1

\* C7 (as stated): two calls that loaded the request in the same state and
\* carry the same (state, reason) leave at most one new history entry and send
\* at most one state-change message between them.
C7_ConcurrentDuplicateOnce ==
    \A w1, w2 \in Workers :
        (/\ w1 # w2
         /\ Reports(w1) /\ pc[w1] = "done"
         /\ Reports(w2) /\ pc[w2] = "done"
         /\ payload[w1] = payload[w2]
         /\ pre[w1] = pre[w2])
            => (/\ Len(history) <= pre[w1] + 1
                /\ ~(notified[w1] /\ notified[w2]))

\* Call w left the request as it was created and sent no message.
Untouched(w) ==
    /\ history = <<InitialEntry>>
    /\ fields = InitFields
    /\ ~appended[w]
    /\ ~state_updated[w]
    /\ ~notified[w]

\* The payload passes every check of patch_request but the one on the pair
\* of state and state_reason.
OtherChecksPass(p) ==
    /\ ~EmptyPayload(p)
    /\ ~InvalidKeys(p)
    /\ ValuesOk(p)
    /\ p.state # NoKey => ValidState(p.state)

\* C16: a patch_request call whose payload holds exactly one of state and
\* state_reason ends in ValidationError, appends no history entry and
\* changes no other field; a payload that holds both or neither, and passes
\* the other checks, is not refused.
C16_StatePairRule ==
    \A w \in Workers :
        pc[w] = "done" =>
            /\ ((payload[w].state = NoKey) # (payload[w].state_reason = NoKey)) =>
                  (outcome[w] = "ValidationError" /\ Untouched(w))
            /\ (((payload[w].state = NoKey) = (payload[w].state_reason = NoKey))
                  /\ OtherChecksPass(payload[w])) =>
                  outcome[w] = "200"

\* C16 witness: a call that gives a state_reason without a state, and a
\* valid index_image, ended in ValidationError with the image not stored.
C16_Witness ==
    /\ pc[1] = "done"
    /\ payload[1].state = NoKey
    /\ payload[1].state_reason = "done"
    /\ payload[1].index_image = PyStr("quay.io/ns/index:1")
    /\ OtherChecksPass(payload[1])
    /\ outcome[1] = "ValidationError"
    /\ fields.index_image = ""

\* The payload fails one of the checks of patch_request: it is empty, holds a
\* key that is not mutable, a wrong value, an unknown state name, or one of
\* state and state_reason without the other.
Invalid(p) ==
    \/ EmptyPayload(p)
    \/ InvalidKeys(p)
    \/ ~ValuesOk(p)
    \/ PairError(p)
    \/ p.state # NoKey /\ ~ValidState(p.state)

\* C17: a patch_request call with a payload that fails a check ends in
\* ValidationError, and a call that ends in ValidationError leaves the
\* history, the image, the architectures and the bundle mapping as they
\* were and sends no message.
C17_ValidationBeforeMutation ==
    \A w \in Workers :
        /\ (pc[w] = "done" /\ Invalid(payload[w])) =>
              outcome[w] = "ValidationError"
        /\ outcome[w] = "ValidationError" => Untouched(w)

\* C17 witness: a call with an unknown state name, and valid values for the
\* image, the architectures and the bundle mapping, ended in
\* ValidationError with none of them stored.
C17_Witness ==
    /\ pc[1] = "done"
    /\ payload[1].state = "paused"
    /\ payload[1].state_reason = "done"
    /\ payload[1].index_image = PyStr("quay.io/ns/index:1")
    /\ payload[1].arches = PyList("amd64")
    /\ payload[1].bundle_mapping = PyDict("operator")
    /\ payload[1].user = Missing
    /\ outcome[1] = "ValidationError"
    /\ fields = InitFields

\* C21 (as stated): a patch_request call sends a state-change message only
\* after its commit, and when it has answered it has sent one exactly if it
\* appended an entry to the history: none for a report that repeats the
\* current (state, reason) or for a payload without a state.
C21_NotifyIffAppended ==
    \A w \in Workers :
        /\ notified[w] => (pc[w] = "done" /\ outcome[w] = "200")
        /\ (pc[w] = "done" /\ outcome[w] = "200") =>
              (notified[w] <=> appended[w])

\* C25: a patch_request call by an authenticated user that is not a worker
\* ends in Forbidden without loading the request, appends no entry and
\* changes no field; a call by a user that is not authenticated, or by a
\* worker, is not refused as Forbidden.
C25_PatchAuthorization ==
    \A w \in Workers :
        pc[w] # "idle" =>
            /\ (caller[w].authenticated
                  /\ caller[w].username \notin WorkerUsernames) =>
                  /\ pc[w] = "done"
                  /\ outcome[w] = "Forbidden"
                  /\ pre[w] = 0
                  /\ Untouched(w)
            /\ (~caller[w].authenticated
                  \/ caller[w].username \in WorkerUsernames) =>
                  outcome[w] # "Forbidden"

\* C25 witness: an authenticated user that is not a worker reported complete
\* with a valid payload and was refused, and a state was not appended.
C25_Witness ==
    /\ pc[1] = "done"
    /\ caller[1] = [authenticated |-> TRUE, username |-> "alice"]
    /\ payload[1].state = "complete" /\ payload[1].state_reason = "done"
    /\ payload[1].index_image = PyStr("quay.io/ns/index:1")
    /\ PayloadError(payload[1]) = "ok"
    /\ outcome[1] = "Forbidden"
    /\ history = <<InitialEntry>>
    /\ fields = InitFields

\* ------------------------------------------- properties of creation and dispatch

\* The broker accepted, or refused, the task of request id.
Accepted(id) == \E j \in 1..Len(attempts) : attempts[j] = <<id, TRUE>>
Refused(id) == \E j \in 1..Len(attempts) : attempts[j] = <<id, FALSE>>

BrokerFailedEntry == [state |-> StateValue("failed"), state_reason |-> BrokerReason]

\* Request id is failed with the broker reason.
BrokerFailed(id) == Last(states[id]) = BrokerFailedEntry

\* How many entries of the history of request id record the broker failure.
BrokerFailures(id) ==
    Cardinality({i \in 1..Len(states[id]) : states[id][i] = BrokerFailedEntry})

\* The broker accepted every submission before the k-th request of the batch
\* and refused every submission from the k-th on, the k-th included.
FailsFrom(k) ==
    /\ Refused(k)
    /\ \A j \in 1..Len(attempts) : attempts[j][2] = (attempts[j][1] < k)

\* C3: when a batch endpoint returns and the broker refused every submission
\* from the k-th request on, the requests before the k-th are not failed and
\* each request from the k-th on is failed with the broker reason, recorded
\* once in its history (for 5 requests and k = 3: 1-2 not failed, 3-5 failed).
C3_PartialFailureIsolation ==
    (bpc = "returned" /\ endpoint \in BatchEndpoints) =>
        \A k \in 1..Len(db_requests) :
            FailsFrom(k) =>
                /\ \A id \in 1..(k - 1) :
                      StateName(Last(states[id]).state) # "failed"
                /\ \A id \in k..Len(db_requests) :
                      BrokerFailed(id) /\ BrokerFailures(id) = 1

\* C3 witness: add_rm_batch returned for 5 requests, the broker having
\* accepted the first two and refused the three others.
C3_Witness ==
    /\ bpc = "returned"
    /\ endpoint = "add_rm_batch"
    /\ Len(db_requests) = 5
    /\ FailsFrom(3)
    /\ Len(attempts) = 5
    /\ BrokerFailed(5)

\* C4 (as stated): no request is both accepted by the broker and failed with
\* the broker reason.
C4_AcceptedNeverMarkedFailed ==
    \A id \in 1..Len(db_requests) : ~(Accepted(id) /\ BrokerFailed(id))

\* C5 (as stated): when a batch endpoint returns, a submission was attempted
\* for every request of the batch, in payload order, whatever the broker
\* answered to the earlier ones.
C5_EveryMemberAttempted ==
    (bpc = "returned" /\ endpoint \in BatchEndpoints) =>
        /\ Len(attempts) = Len(db_requests)
        /\ \A i \in 1..Len(db_requests) : attempts[i][1] = db_requests[i]

\* C6: a batch with an invalid build request, at any position, leaves no
\* request row and no batch row committed, sends no new-batch message and
\* submits no task.
C6_BatchAtomicity ==
    (endpoint \in BatchEndpoints /\ FirstInvalid(endpoint, build_requests) # 0) =>
        /\ bpc = "rejected"
        /\ response.code = "ValidationError"
        /\ db_requests = <<>>
        /\ db_batches = 0
        /\ new_msgs = <<>>
        /\ attempts = <<>>

\* C6 witness: a batch was rejected for a build request that follows valid
\* ones.
C6_Witness ==
    /\ endpoint \in BatchEndpoints
    /\ bpc = "rejected"
    /\ FirstInvalid(endpoint, build_requests) > 1
    /\ FirstInvalid(endpoint, build_requests) < Len(build_requests)

\* C10 (as stated): a call that committed requests and returned answers 201
\* with every committed request in the body.
C10_ResponseHoldsEveryCommitted ==
    bpc = "returned" =>
        /\ response.code = "201"
        /\ request_jsons = db_requests

\* Every build request of the payload has its row committed, with a history,
\* and the batch row is committed with them.
AllCommitted ==
    /\ db_requests = [i \in 1..Len(build_requests) |-> i]
    /\ DOMAIN states = 1..Len(build_requests)
    /\ \A id \in 1..Len(build_requests) : Len(states[id]) >= 1
    /\ db_batches = 1

\* C11: in a call of a batch endpoint the rows are committed all at once
\* (none, or the batch and every request of the payload), the dispatch is
\* entered and a task is submitted only after that commit, and the committed
\* rows all remain, whatever the broker answered to the submissions.
C11_CommitPrecedesDispatch ==
    endpoint \in BatchEndpoints =>
        /\ db_requests = <<>> \/ AllCommitted
        /\ (bpc \in {"dispatch", "submitted", "returned"} \/ attempts # <<>>) =>
              AllCommitted

\* C11 witness: a batch endpoint returned after the broker refused a
\* submission, and the batch and its requests, more than one, are committed.
C11_Witness ==
    /\ endpoint \in BatchEndpoints
    /\ bpc = "returned"
    /\ \E id \in 1..Len(db_requests) : Refused(id)
    /\ Len(db_requests) >= 2
    /\ AllCommitted

\* C14 (as stated): a batch endpoint sends no new-batch message before the
\* commit, sends exactly one, holding every request in payload order, before
\* the first submission, and when it returns has made one submission attempt
\* for each of the n requests.
C14_OneMessageThenNAttempts ==
    endpoint \in BatchEndpoints =>
        /\ bpc \in {"idle", "committed", "rejected"} => new_msgs = <<>>
        /\ bpc \in {"dispatch", "submitted", "returned"} =>
              new_msgs = << [i \in 1..Len(build_requests) |-> i] >>
        /\ attempts # <<>> => Len(new_msgs) = 1
        /\ bpc = "returned" =>
              /\ Len(attempts) = Len(build_requests)
              /\ \A id \in 1..Len(build_requests) :
                    Cardinality({j \in 1..Len(attempts) : attempts[j][1] = id}) = 1

\* The build request holds the key.
HasKey(member, key) == member[key] # Missing

OnlyOperators(member) == HasKey(member, "operators") /\ ~HasKey(member, "bundles")
OnlyBundles(member) == HasKey(member, "bundles") /\ ~HasKey(member, "operators")
BothOrNeither(member) == HasKey(member, "operators") <=> HasKey(member, "bundles")

\* C15: in add_rm_batch a build request with operators and no bundles is
\* built as an rm request, one with bundles and no operators as an add
\* request, and a batch with a build request that holds both keys or
\* neither is rejected with ValidationError; a batch whose build requests
\* have well-typed values is rejected only for such a build request.
C15_VariantDiscrimination ==
    (endpoint = "add_rm_batch") =>
        /\ \A i \in 1..Len(request_types) :
              /\ OnlyOperators(build_requests[i]) => request_types[i] = "RequestRm"
              /\ OnlyBundles(build_requests[i]) => request_types[i] = "RequestAdd"
              /\ OnlyOperators(build_requests[i]) \/ OnlyBundles(build_requests[i])
        /\ (\E i \in 1..Len(build_requests) : BothOrNeither(build_requests[i]))
              => (bpc = "rejected" /\ response.code = "ValidationError")
        /\ (bpc = "rejected"
              /\ \A i \in 1..Len(build_requests) : OverwriteOk(build_requests[i]))
              => \E i \in 1..Len(build_requests) : BothOrNeither(build_requests[i])
        /\ bpc # "rejected" => Len(request_types) = Len(build_requests)

\* C15 witness: add_rm_batch built an rm and an add request and then
\* rejected a build request that holds both keys.
C15_Witness ==
    /\ endpoint = "add_rm_batch"
    /\ bpc = "rejected"
    /\ Len(build_requests) >= 3
    /\ Len(request_types) = 2
    /\ OnlyOperators(build_requests[1]) /\ request_types[1] = "RequestRm"
    /\ OnlyBundles(build_requests[2]) /\ request_types[2] = "RequestAdd"
    /\ HasKey(build_requests[3], "operators") /\ HasKey(build_requests[3], "bundles")

\* How many submissions were attempted for request id.
Attempts(id) == Cardinality({j \in 1..Len(attempts) : attempts[j][1] = id})

\* C18: within one call of a create endpoint the task of a committed request
\* is submitted at most once, so never again after the broker refused it,
\* and when the call returns every request whose submission the broker
\* refused is failed with the broker reason.
C18_NoSilentRetry ==
    \A id \in 1..Len(db_requests) :
        /\ Attempts(id) <= 1
        /\ (bpc = "returned" /\ Refused(id)) => BrokerFailed(id)

\* C18 witness: a batch call returned after the broker refused the
\* submission of its second request and accepted a later one; the refused
\* request was submitted once and is failed.
C18_Witness ==
    /\ bpc = "returned"
    /\ Len(db_requests) >= 3
    /\ Accepted(1) /\ Refused(2) /\ Accepted(3)
    /\ Attempts(2) = 1
    /\ BrokerFailed(2)

\* C20 (as stated): when a batch endpoint rejects a payload, the index of
\* the error is the zero-based position of the first invalid build request,
\* every build request before it being valid, also when build requests
\* equal to it are in the list; and only the build requests before it were
\* built.
C20_ErrorIndexIsFirstInvalid ==
    (endpoint \in BatchEndpoints /\ bpc = "rejected") =>
        /\ response.index \in 0..(Len(build_requests) - 1)
        /\ ~MemberOk(endpoint, build_requests[response.index + 1])
        /\ \A j \in 1..response.index : MemberOk(endpoint, build_requests[j])
        /\ Len(request_types) = response.index

\* C22: when a batch endpoint returns after its commit, the task of every
\* request was accepted by the broker or the request is failed; none is left
\* in_progress with no task submitted.
C22_NoOrphanedRequest ==
    (bpc = "returned" /\ endpoint \in BatchEndpoints) =>
        \A id \in 1..Len(db_requests) :
            Accepted(id) \/ StateName(Last(states[id]).state) = "failed"

\* C22 witness: regenerate_bundle_batch returned after the broker refused
\* its second submission; the third request was never submitted and is
\* failed.
C22_Witness ==
    /\ bpc = "returned"
    /\ endpoint = "regenerate_bundle_batch"
    /\ Len(db_requests) >= 3
    /\ Accepted(1) /\ Refused(2)
    /\ Attempts(3) = 0
    /\ BrokerFailed(3)

\* C23 (as stated): in a batch endpoint, between the iterations of the
\* dispatch loop and at return, processed_request_ids holds exactly the ids
\* of the requests whose submission the broker accepted, and never the id of
\* a request whose submission it refused.
C23_ProcessedAreAccepted ==
    endpoint \in BatchEndpoints =>
        /\ {processed_request_ids[j] : j \in 1..Len(processed_request_ids)}
              = {id \in 1..Len(db_requests) : Accepted(id)}
        /\ \A j \in 1..Len(processed_request_ids) :
              ~Refused(processed_request_ids[j])

\* ------------------------------------------- properties of the argument lists

\* The positions of cnr_token and overwrite_from_index_token in the argument
\* list of the task.
CnrTokenAt == IF task \in {"add_bundles", "add_rm_batch:add"} THEN {6} ELSE {}
OverwriteTokenAt == IF task \in {"add_bundles", "add_rm_batch:add"} THEN {10} ELSE {7}

\* The positions whose token the payload supplies.
RedactedAt ==
    {i \in CnrTokenAt : PyTruthy(task_payload.cnr_token)}
        \cup {i \in OverwriteTokenAt : PyTruthy(task_payload.overwrite_from_index_token)}

\* C8 (as stated): no element of the display list equals a token the payload
\* supplies.
C8_NoTokenInDisplay ==
    task # "none" =>
        \A i \in 1..Len(safe_args) :
            /\ PyTruthy(task_payload.cnr_token)
                  => ~PyEq(safe_args[i], task_payload.cnr_token)
            /\ PyTruthy(task_payload.overwrite_from_index_token)
                  => ~PyEq(safe_args[i], task_payload.overwrite_from_index_token)

\* C9 (as stated): the submitted list holds the tokens, and the display list
\* holds "*****" at the position of each supplied token and the submitted
\* value at every other position.
C9_OnlyTokenPositionsRedacted ==
    task # "none" =>
        /\ \A i \in CnrTokenAt : PyEq(args[i], task_payload.cnr_token)
        /\ \A i \in OverwriteTokenAt :
              PyEq(args[i], task_payload.overwrite_from_index_token)
        /\ Len(safe_args) = Len(args)
        /\ \A i \in 1..Len(args) :
              IF i \in RedactedAt
                THEN PyEq(safe_args[i], PyStr("*****"))
                ELSE PyEq(safe_args[i], args[i])

\* Where the argument list holds overwrite_from_index, one-based.
OverwriteFlagAt == IF task \in {"add_bundles", "add_rm_batch:add"} THEN 9 ELSE 6

\* The user is authenticated and privileged and the force flag is on.
Forced ==
    /\ current_user.authenticated
    /\ current_user.username \in app_config.IIB_PRIVILEGED_USERNAMES
    /\ app_config.IIB_FORCE_OVERWRITE_FROM_INDEX

\* C13: in add_bundles, rm_operators and add_rm_batch the queue is computed
\* with serial true exactly when the user is authenticated, privileged and
\* the force flag is on, or the build request sets overwrite_from_index; for
\* a user that is not authenticated, exactly when the build request sets it;
\* and the overwrite_from_index argument of the task is that same value.
C13_SerialRule ==
    task # "none" =>
        /\ PyTruthy(queue_serial) <=>
              (Forced \/ PyTruthy(task_payload.overwrite_from_index))
        /\ ~current_user.authenticated =>
              queue_serial = task_payload.overwrite_from_index
        /\ args[OverwriteFlagAt] = queue_serial

\* C13 witness: a privileged user with the force flag on submits an rm build
\* request that sets overwrite_from_index to false, and the task is serial.
C13_Witness ==
    /\ task = "rm_operators"
    /\ Forced
    /\ task_payload.overwrite_from_index = PyBool(FALSE)
    /\ queue_serial = PyBool(TRUE)
    /\ args[6] = PyBool(TRUE)

\* ------------------------------------------------- properties of the routing

\* The labelled username of a routing call.
LabelOf(call) ==
    (IF PyTruthy(call.serial) THEN "SERIAL:" ELSE "PARALLEL:")
        \o call.user.username

\* The queue the routing rule names for a call, a key counting as mapped
\* when Mapped(key) holds.
RuleQueue(call, Mapped(_)) ==
    IF ~call.user.authenticated THEN PyNone
    ELSE IF Mapped(LabelOf(call)) THEN PyStr(user_to_queue[LabelOf(call)])
    ELSE IF call.user.username \in DOMAIN user_to_queue
           THEN PyStr(user_to_queue[call.user.username])
    ELSE PyNone

\* The key is one of IIB_USER_TO_QUEUE.
IsKey(key) == key \in DOMAIN user_to_queue

\* The key is one of IIB_USER_TO_QUEUE and its queue name is not empty.
IsKeyOfName(key) == key \in DOMAIN user_to_queue /\ user_to_queue[key] # ""

\* C12 (as stated): every routing call returns None for a user that is not
\* authenticated, else the queue of "SERIAL:" + username (serial) or of
\* "PARALLEL:" + username (not serial) if that key is in the mapping, else
\* the queue of the username if that key is in the mapping, else None.
C12_RouteByLabelThenUser ==
    \A i \in 1..Len(routed) : routed[i].queue = RuleQueue(routed[i], IsKey)

\* C12 (amended): as above, the labelled key counting only if the queue name
\* it is mapped to is not empty.
C12_RouteByNamedLabelThenUser ==
    \A i \in 1..Len(routed) : routed[i].queue = RuleQueue(routed[i], IsKeyOfName)

\* C12 witness: routing calls of an authenticated user answered from the
\* labelled key, from the username after an empty labelled name, and with
\* None.
C12_Witness ==
    /\ Len(routed) = 2
    /\ routed[1].user.authenticated /\ routed[2].user.authenticated
    /\ PyTruthy(routed[1].serial) /\ ~PyTruthy(routed[2].serial)
    /\ "SERIAL:alice" \in DOMAIN user_to_queue
    /\ routed[1].queue = PyStr("q1")
    /\ "PARALLEL:alice" \in DOMAIN user_to_queue
    /\ user_to_queue["PARALLEL:alice"] = ""
    /\ routed[2].queue = PyStr("q2")

LogsAnswered == log_response.code # "none" /\ log_query.found

Expired == log_query.logs_expiration < log_query.utcnow
Finalized == log_query.state_name \in FinalStates

\* The outcomes of get_build_logs for a request that exists, case by case.
LogOutcomes ==
    /\ ~PyTruthy(log_query.dir) => log_response.code = "NotFound"
    /\ (PyTruthy(log_query.dir) /\ log_query.file # NoFile) =>
          log_response = Answer("200", log_query.file)
    /\ (PyTruthy(log_query.dir) /\ log_query.file = NoFile) =>
          log_response = (IF Expired THEN Answer("Gone", "")
                          ELSE IF Finalized THEN Answer("NotFound", "")
                          ELSE Answer("200", ""))

\* C24 (as stated): the outcomes above, and a request that is not in a final
\* state and whose logs are not expired never gets NotFound or Gone.
C24_LogOutcomesNeverNotFound ==
    LogsAnswered =>
        /\ LogOutcomes
        /\ (~Finalized /\ ~Expired) =>
              log_response.code \notin {"NotFound", "Gone"}

\* C24 (amended): the outcomes above, and with a log directory configured a
\* request that is not in a final state and whose logs are not expired never
\* gets NotFound or Gone.
C24_LogOutcomes ==
    LogsAnswered =>
        /\ LogOutcomes
        /\ (PyTruthy(log_query.dir) /\ ~Finalized /\ ~Expired) =>
              log_response.code \notin {"NotFound", "Gone"}

\* C24 witness: with a log directory and no log file, a request in a final
\* state whose logs are expired got Gone.
C24_Witness ==
    /\ LogsAnswered
    /\ PyTruthy(log_query.dir)
    /\ log_query.file = NoFile
    /\ Finalized /\ Expired
    /\ log_response.code = "Gone"

\* ------------------------------------------------------ specifications

vars == <<patchVars, batchVars, argsVars, routeVars, logVars>>

Init == InitPatch /\ InitBatch /\ InitArgs /\ InitRoute /\ InitLogs

Next == NextPatch

Spec == Init /\ [][Next]_vars

SpecBatch == Init /\ [][NextBatch]_vars

SpecArgs == Init /\ [][NextArgs]_vars

SpecRoute == Init /\ [][NextRoute]_vars

SpecCalls == Init /\ [][NextCalls]_vars

SpecFields == Init /\ [][NextFields]_vars

SpecLogs == Init /\ [][NextLogs]_vars

SpecAuth == Init /\ [][NextAuth]_vars

====
